---- MODULE Spec2Model ----
(***************************************************************************)
(* A model of the picopb/micropb wire decoder (picopb/src/decode.rs) and   *)
(* of Tag and ImplicitPresence (micropb/src/lib.rs).                       *)
(*                                                                         *)
(* Representation.  A byte is a number in 0..255.  A u32/u64/i32/i64/i8    *)
(* value is the set of the positions of its one bits (bit 0 is the least   *)
(* significant), so that the 32- and 64-bit arithmetic of the code, which  *)
(* is all bitwise (|, <<, >>, ^, &, casts, negation), is computed exactly  *)
(* at its width.  Signed values are two's complement bit patterns.         *)
(***************************************************************************)
EXTENDS Integers, Sequences, FiniteSets, TLC

VARIABLES
    buf,      \* PbReader.buf: the borrowed input bytes
    idx,      \* PbReader.idx: the cursor, number of bytes consumed
    start,    \* idx when the last operation was called
    op,       \* name of the last operation called ("new" after construction)
    arg,      \* argument of the last operation
    res,      \* Result returned by the last operation
    tag,      \* the caller's Tag: the last one decode_tag returned
    vec,      \* the caller's container (PbVec, PbString) handed to
              \* decode_packed, decode_bytes, decode_string
    skipped,  \* n when the calls so far are n times (decode_tag, skip_wire_value
              \* of that tag), all Ok, then at most a decode_tag and one read;
              \* -1 after any other history
    basic,    \* the caller's BasicTypes message handed to decode_len_delimited
    nested,   \* the caller's Nested message, encoded and decoded into
    out       \* the writer of the PbEncoder of the last encode

vars == <<buf, idx, start, op, arg, res, tag, vec, skipped, basic, nested, out>>

-----------------------------------------------------------------------------
(* Program constants *)

BYTES32 == 5
BYTES64 == 10
WIRE_TYPE_VARINT == 0
WIRE_TYPE_I64 == 1
WIRE_TYPE_LEN == 2
WIRE_TYPE_I32 == 5

(* Bounds of the model *)

MaxRun == 10       \* longest run of equal continuation bytes in an input
MaxTail == 2       \* bytes that follow the run
MaxTagRun == 4     \* continuation bytes of a tag input
MaxUnknown == 2    \* unknown fields in front of the known field of an input
MaxPayload == 4    \* bytes behind the length prefix of a packed input
VecCap == 3        \* capacity of the caller's fixed-capacity PbVec
MaxEntryFields == 2  \* fields in the payload of a map entry input
MaxMsgFields == 2  \* fields in the payload of a message input
MaxBuf == 3        \* length of the buffers made of every byte of a small set

-----------------------------------------------------------------------------
(* Bit-level arithmetic on bit-position sets *)

Bit(b, i) == (b \div (2 ^ i)) % 2 = 1

\* U::from(b) for a u8 b
FromU8(b) == {i \in 0..7 : Bit(b, i)}

\* b & !0x80 on a u8: the faulty variant keeps the continuation bit in the value
Low7_keepsHighBit(b) == b
Low7(b) == b % 128

\* b & 0x80 != 0 on a u8
HasCont(b) == b \div 128 = 1

\* x << n at width w: bits shifted past the width are lost
Shl(x, n, w) == {j + n : j \in x} \cap (0..(w - 1))

\* x >> n (logical)
Shr(x, n) == {j - n : j \in {k \in x : k >= n}}

BitXor(x, y) == (x \ y) \cup (y \ x)

\* x as uN / x as iN, narrowing to w bits; the faulty variant saturates
Truncate_saturating(x, w) == IF x \subseteq 0..(w - 1) THEN x ELSE 0..(w - 1)
Truncate(x, w) == x \cap (0..(w - 1))

\* The bit pattern of a small integer literal n at width w (two's complement)
NatBits(n) == {i \in 0..30 : Bit(n, i)}

Twos(n, w) == IF n >= 0 THEN NatBits(n) ELSE (0..(w - 1)) \ NatBits(-n - 1)

\* -x at width w (two's complement)
Neg(x, w) ==
    IF x = {} THEN {}
    ELSE LET low == CHOOSE k \in x : \A j \in x : k <= j
         IN  {low} \cup {j \in (low + 1)..(w - 1) : j \notin x}

\* The number a bit pattern below 2^31 stands for
RECURSIVE ToNat(_)
ToNat(x) ==
    IF x = {} THEN 0
    ELSE LET j == CHOOSE k \in x : TRUE IN (2 ^ j) + ToNat(x \ {j})

\* len as usize.  A length is only ever compared with remaining(); lengths of
\* 2^30 and more exceed every buffer of the model and are all held as 2^30.
AsUsize(len) == IF \E j \in len : j >= 30 THEN 2 ^ 30 ELSE ToNat(len)

\* u32::from_le_bytes / u64::from_le_bytes
FromLeBytes(bytes) ==
    {n \in 0..(8 * Len(bytes) - 1) : Bit(bytes[(n \div 8) + 1], n % 8)}

-----------------------------------------------------------------------------
(* Result<T, DecodeError> *)

NoError == [kind |-> "None", n |-> 0]
VarIntLimit(n) == [kind |-> "VarIntLimit", n |-> n]
UnexpectedEof == [kind |-> "UnexpectedEof", n |-> 0]
Deprecation == [kind |-> "Deprecation", n |-> 0]
BadWireType(w) == [kind |-> "BadWireType", n |-> w]
Utf8 == [kind |-> "Utf8", n |-> 0]
Capacity == [kind |-> "Capacity", n |-> 0]

\* Not a DecodeError: the panic of an index out of the bounds of a slice
IndexOutOfBounds == [kind |-> "IndexOutOfBounds", n |-> 0]

Unit == <<>>
Ok(v) == [ok |-> TRUE, val |-> v, err |-> NoError]
Err(e) == [ok |-> FALSE, val |-> Unit, err |-> e]

\* What an operation on a reader over b leaves: the cursor and the Result
Out(i, r) == [idx |-> i, res |-> r]

-----------------------------------------------------------------------------
(* PbReader primitives, as functions of the buffer b and the cursor i *)

remaining(b, i) == Len(b) - i

\* buf[i] and &buf[from..to]: indexing checks the bounds and panics
Index(b, i) == IF i < Len(b) THEN Ok(b[i + 1]) ELSE Err(IndexOutOfBounds)

Slice(b, from, to) ==
    IF to <= Len(b) THEN Ok(SubSeq(b, from + 1, to)) ELSE Err(IndexOutOfBounds)

\* The faulty variant indexes the buffer without asking remaining().  A
\* panic ends the program: the cursor it leaves is not observed
get_byte_unchecked(b, i) == Out(i + 1, Index(b, i))
get_byte(b, i) ==
    IF remaining(b, i) = 0 THEN Out(i, Err(UnexpectedEof))
    ELSE Out(i + 1, Index(b, i))

\* The for loop of decode_varint: n is the loop counter in 1..BYTES
RECURSIVE varint_loop(_, _, _, _, _, _, _)
varint_loop(b, i, w, bytes, n, varint, bitpos) ==
    IF n >= bytes THEN Out(i, Err(VarIntLimit(bytes)))
    ELSE LET got(g) ==
                 IF ~g.res.ok THEN g
                 ELSE LET byte == g.res.val
                          v2 == varint \cup Shl(FromU8(Low7(byte)), bitpos, w)
                      IN  IF ~HasCont(byte) THEN Out(g.idx, Ok(v2))
                          ELSE varint_loop(b, g.idx, w, bytes, n + 1, v2,
                                   bitpos + 7)
         IN  got(get_byte(b, i))

decode_varint(b, i, w, bytes) ==
    LET got(g) ==
            IF ~g.res.ok THEN g
            ELSE LET byte == g.res.val
                     varint == FromU8(Low7(byte))
                 IN  IF ~HasCont(byte) THEN Out(g.idx, Ok(varint))
                     ELSE varint_loop(b, g.idx, w, bytes, 1, varint, 7)
    IN  got(get_byte(b, i))

decode_uint32(b, i) == decode_varint(b, i, 32, BYTES32)

decode_uint64(b, i) == decode_varint(b, i, 64, BYTES64)

\* u as i64 keeps the 64 bits
decode_int64(b, i) == decode_uint64(b, i)

int32_via_uint32(b, i) == decode_uint32(b, i)
decode_int32(b, i) ==
    LET got(o) ==
            IF o.res.ok THEN Out(o.idx, Ok(Truncate(o.res.val, 32))) ELSE o
    IN  got(decode_int64(b, i))

\* ((u >> 1) as iN) ^ -((u & 1) as iN)
ZigZagDecode_noNeg(u, w) == BitXor(Shr(u, 1), u \cap {0})
ZigZagDecode(u, w) == BitXor(Shr(u, 1), Neg(u \cap {0}, w))

decode_sint32(b, i) ==
    LET got(o) ==
            IF o.res.ok THEN Out(o.idx, Ok(ZigZagDecode(o.res.val, 32))) ELSE o
    IN  got(decode_uint32(b, i))

decode_sint64(b, i) ==
    LET got(o) ==
            IF o.res.ok THEN Out(o.idx, Ok(ZigZagDecode(o.res.val, 64))) ELSE o
    IN  got(decode_uint64(b, i))

decode_bool(b, i) ==
    LET got(g) ==
            IF ~g.res.ok THEN g
            ELSE IF HasCont(g.res.val) THEN Out(g.idx, Err(VarIntLimit(1)))
            ELSE Out(g.idx, Ok(g.res.val # 0))
    IN  got(get_byte(b, i))

\* The for loop of skip_varint: n counts the bytes read so far
RECURSIVE skip_varint_loop(_, _, _)
skip_varint_loop(b, i, n) ==
    IF n >= BYTES64 THEN Out(i, Err(VarIntLimit(BYTES64)))
    ELSE LET got(g) ==
                 IF ~g.res.ok THEN g
                 ELSE IF ~HasCont(g.res.val) THEN Out(g.idx, Ok(Unit))
                 ELSE skip_varint_loop(b, g.idx, n + 1)
         IN  got(get_byte(b, i))

skip_varint_offByOne(b, i) == skip_varint_loop(b, i, 1)
skip_varint(b, i) == skip_varint_loop(b, i, 0)

get_slice_absolute(b, i, size) ==
    IF remaining(b, i) < size THEN Out(i, Err(UnexpectedEof))
    ELSE Out(size, Ok(SubSeq(b, i + 1, i + size)))
get_slice(b, i, size) ==
    IF remaining(b, i) < size THEN Out(i, Err(UnexpectedEof))
    ELSE Out(i + size, Slice(b, i, i + size))

decode_fixed32(b, i) ==
    LET got(o) ==
            IF o.res.ok THEN Out(o.idx, Ok(FromLeBytes(o.res.val))) ELSE o
    IN  got(get_slice(b, i, 4))

decode_fixed64(b, i) ==
    LET got(o) ==
            IF o.res.ok THEN Out(o.idx, Ok(FromLeBytes(o.res.val))) ELSE o
    IN  got(get_slice(b, i, 8))

\* Tag { field_num: u32, wire_type: u8 } of picopb's decoder
TagOf(f, w) == [field_num |-> f, wire_type |-> w]

decode_tag(b, i) ==
    LET got(o) ==
            IF o.res.ok
            THEN Out(o.idx,
                     Ok(TagOf(Shr(o.res.val, 3), ToNat(o.res.val \cap (0..2)))))
            ELSE o
    IN  got(decode_uint32(b, i))

decode_len_slice(b, i) ==
    LET got(o) ==
            IF o.res.ok THEN get_slice(b, o.idx, AsUsize(o.res.val)) ELSE o
    IN  got(decode_uint32(b, i))

\* drop(..) of a slice
Drop(o) == IF o.res.ok THEN Out(o.idx, Ok(Unit)) ELSE o

skip_wire_value_lenPrefixOnly(b, i, t) ==
    CASE t.wire_type = WIRE_TYPE_VARINT -> skip_varint(b, i)
      [] t.wire_type = WIRE_TYPE_I64 -> Drop(get_slice(b, i, 8))
      [] t.wire_type = WIRE_TYPE_LEN -> Drop(decode_uint32(b, i))
      [] t.wire_type \in {3, 4} -> Out(i, Err(Deprecation))
      [] t.wire_type = WIRE_TYPE_I32 -> Drop(get_slice(b, i, 4))
      [] OTHER -> Out(i, Err(BadWireType(t.wire_type)))
skip_wire_value(b, i, t) ==
    CASE t.wire_type = WIRE_TYPE_VARINT -> skip_varint(b, i)
      [] t.wire_type = WIRE_TYPE_I64 -> Drop(get_slice(b, i, 8))
      [] t.wire_type = WIRE_TYPE_LEN -> Drop(decode_len_slice(b, i))
      [] t.wire_type \in {3, 4} -> Out(i, Err(Deprecation))
      [] t.wire_type = WIRE_TYPE_I32 -> Drop(get_slice(b, i, 4))
      [] OTHER -> Out(i, Err(BadWireType(t.wire_type)))

-----------------------------------------------------------------------------
(* Length-delimited values: packed fields *)

\* PbVec::push on a fixed-capacity vector: Err(()) when it is full
push(v, x) == IF Len(v) >= VecCap THEN Err(Capacity) ELSE Ok(Append(v, x))

\* decoder(&mut reader) for decoder: DecodeFn<T>
DecodeFns == {"decode_uint32", "decode_sint32", "decode_bool", "decode_fixed32"}

Decoder(d, b, i) ==
    CASE d = "decode_uint32" -> decode_uint32(b, i)
      [] d = "decode_sint32" -> decode_sint32(b, i)
      [] d = "decode_bool" -> decode_bool(b, i)
      [] d = "decode_fixed32" -> decode_fixed32(b, i)

\* What decode_packed leaves: the Result and the caller's vector
Packed(r, v) == [res |-> r, vec |-> v]

\* The while loop of decode_packed on the sub-reader (sub, j)
RECURSIVE packed_loop(_, _, _, _)
packed_loop(sub, j, v, d) ==
    IF ~(remaining(sub, j) > 0) THEN Packed(Ok(Unit), v)
    ELSE LET got(e) ==
                 IF ~e.res.ok THEN Packed(e.res, v)
                 ELSE LET pushed == push(v, e.res.val) IN
                      IF ~pushed.ok THEN Packed(Err(Capacity), v)
                      ELSE packed_loop(sub, e.idx, pushed.val, d)
         IN  got(Decoder(d, sub, j))

\* The faulty variant decodes on the outer reader until it is past the payload
RECURSIVE packed_loop_outer(_, _, _, _, _)
packed_loop_outer(b, j, end, v, d) ==
    IF ~(end - j > 0) THEN Packed(Ok(Unit), v)
    ELSE LET e == Decoder(d, b, j) IN
         IF ~e.res.ok THEN Packed(e.res, v)
         ELSE LET pushed == push(v, e.res.val) IN
              IF ~pushed.ok THEN Packed(Err(Capacity), v)
              ELSE packed_loop_outer(b, e.idx, end, pushed.val, d)

decode_packed_onOuterReader(b, i, v, d) ==
    LET o == decode_len_slice(b, i) IN
    IF ~o.res.ok THEN [idx |-> o.idx, res |-> o.res, vec |-> v]
    ELSE LET l == packed_loop_outer(b, o.idx - Len(o.res.val), o.idx, v, d)
         IN  [idx |-> o.idx, res |-> l.res, vec |-> l.vec]
\* The faulty variant hands back the vector as it was when the loop fails
decode_packed_rollback(b, i, v, d) ==
    LET o == decode_len_slice(b, i) IN
    IF ~o.res.ok THEN [idx |-> o.idx, res |-> o.res, vec |-> v]
    ELSE LET l == packed_loop(o.res.val, 0, v, d)
         IN  [idx |-> o.idx, res |-> l.res,
              vec |-> IF l.res.ok THEN l.vec ELSE v]
decode_packed(b, i, v, d) ==
    LET done(o, l) == [idx |-> o.idx, res |-> l.res, vec |-> l.vec]
        got(o) ==
            IF ~o.res.ok THEN [idx |-> o.idx, res |-> o.res, vec |-> v]
            ELSE done(o, packed_loop(o.res.val, 0, v, d))
    IN  got(decode_len_slice(b, i))

-----------------------------------------------------------------------------
(* Length-delimited values: bytes and strings.  The u8 elements of the     *)
(* container are held as bit patterns, like every integer value.           *)

\* PbVec::write_slice / PbString::write_str on a fixed-capacity container:
\* the slice is appended, or Err(()) when it does not fit
write_slice(v, s) ==
    IF Len(v) + Len(s) > VecCap THEN Err(Capacity)
    ELSE Ok(v \o [k \in 1..Len(s) |-> FromU8(s[k])])

\* core::str::from_utf8 on the payloads of the inputs: they hold no lead
\* byte of a multi-byte sequence, so that the valid ones are the ASCII ones
from_utf8(s) == IF \A k \in 1..Len(s) : s[k] < 128 THEN Ok(s) ELSE Err(Utf8)

decode_string(b, i, v) ==
    LET got(o) ==
            IF ~o.res.ok THEN [idx |-> o.idx, res |-> o.res, vec |-> v]
            ELSE LET u == from_utf8(o.res.val) IN
                 IF ~u.ok THEN [idx |-> o.idx, res |-> u, vec |-> v]
                 ELSE LET w == write_slice(v, u.val) IN
                      IF ~w.ok
                      THEN [idx |-> o.idx, res |-> Err(Capacity), vec |-> v]
                      ELSE [idx |-> o.idx, res |-> Ok(Unit), vec |-> w.val]
    IN  got(decode_len_slice(b, i))

decode_bytes(b, i, v) ==
    LET got(o) ==
            IF ~o.res.ok THEN [idx |-> o.idx, res |-> o.res, vec |-> v]
            ELSE LET w == write_slice(v, o.res.val) IN
                 IF ~w.ok
                 THEN [idx |-> o.idx, res |-> Err(Capacity), vec |-> v]
                 ELSE [idx |-> o.idx, res |-> Ok(Unit), vec |-> w.val]
    IN  got(decode_len_slice(b, i))

-----------------------------------------------------------------------------
(* Length-delimited values: map entries *)

\* Option<T>
None == <<>>
Some(x) == <<x>>

\* What an updater leaves: the sub-reader's cursor, its Result and the slot
Updated(i, r, slot) == [idx |-> i, res |-> r, slot |-> slot]

\* key_update / val_update: the closure decodes one value with d and fills
\* the slot, |slot, reader| { *slot = Some(reader.d()?); Ok(()) }
update(d, slot, sub, j) ==
    LET got(e) ==
            IF e.res.ok THEN Updated(e.idx, Ok(Unit), Some(e.res.val))
            ELSE Updated(e.idx, e.res, slot)
    IN  got(Decoder(d, sub, j))

\* What the loop of decode_map_elem leaves: its Result and the two slots
Slots(r, key, val) == [res |-> r, key |-> key, val |-> val]

\* The while loop of decode_map_elem on the sub-reader (sub, j)
RECURSIVE map_loop(_, _, _, _, _, _)
map_loop(sub, j, key, val, kd, vd) ==
    IF ~(remaining(sub, j) > 0) THEN Slots(Ok(Unit), key, val)
    ELSE LET key_updated(u) ==
                 IF ~u.res.ok THEN Slots(u.res, u.slot, val)
                 ELSE map_loop(sub, u.idx, u.slot, val, kd, vd)
             val_updated(u) ==
                 IF ~u.res.ok THEN Slots(u.res, key, u.slot)
                 ELSE map_loop(sub, u.idx, key, u.slot, kd, vd)
             skipped_value(k) ==
                 IF ~k.res.ok THEN Slots(k.res, key, val)
                 ELSE map_loop(sub, k.idx, key, val, kd, vd)
             got(t) ==
                 IF ~t.res.ok THEN Slots(t.res, key, val)
                 ELSE IF t.res.val.field_num = {0}
                      THEN key_updated(update(kd, key, sub, t.idx))
                 ELSE IF t.res.val.field_num = {1}
                      THEN val_updated(update(vd, val, sub, t.idx))
                 ELSE skipped_value(skip_wire_value(sub, t.idx, t.res.val))
         IN  got(decode_tag(sub, j))

\* if let (Some(key), Some(val)) = (key, val); the faulty variant takes either slot
\* and K::default() / V::default() for the other
PairOf_eitherSlot(key, val) ==
    IF key # None \/ val # None
    THEN Some(<<IF key # None THEN key[1] ELSE {},
                IF val # None THEN val[1] ELSE {}>>)
    ELSE None
PairOf(key, val) ==
    IF key # None /\ val # None THEN Some(<<key[1], val[1]>>) ELSE None

decode_map_elem(b, i, kd, vd) ==
    LET done(o, l) ==
            IF ~l.res.ok THEN Out(o.idx, l.res)
            ELSE Out(o.idx, Ok(PairOf(l.key, l.val)))
        got(o) ==
            IF ~o.res.ok THEN o
            ELSE done(o, map_loop(o.res.val, 0, None, None, kd, vd))
    IN  got(decode_len_slice(b, i))

-----------------------------------------------------------------------------
(* The generated message BasicTypes of tests/basic-proto (int_type.rs):    *)
(* int32 field 1 is stored as i8 (default -5), uint32 field 3 as u8.  The  *)
(* generated decode is not part of the sources; it is the message decode   *)
(* loop of the specification over the reader's primitives.                 *)

DefaultBasic ==
    [int32_num |-> Twos(-5, 8), has_int32_num |-> FALSE,
     uint32_num |-> {}, has_uint32_num |-> FALSE]

\* What a message decode leaves: its Result and the message
Decoded(r, m) == [res |-> r, msg |-> m]

RECURSIVE basic_decode(_, _, _)
basic_decode(sub, j, m) ==
    IF ~(remaining(sub, j) > 0) THEN Decoded(Ok(Unit), m)
    ELSE LET got_int32(e) ==
                 IF ~e.res.ok THEN Decoded(e.res, m)
                 ELSE basic_decode(sub, e.idx,
                          [m EXCEPT !.int32_num = Truncate(e.res.val, 8),
                                    !.has_int32_num = TRUE])
             got_uint32(e) ==
                 IF ~e.res.ok THEN Decoded(e.res, m)
                 ELSE basic_decode(sub, e.idx,
                          [m EXCEPT !.uint32_num = Truncate(e.res.val, 8),
                                    !.has_uint32_num = TRUE])
             skipped_value(k) ==
                 IF ~k.res.ok THEN Decoded(k.res, m)
                 ELSE basic_decode(sub, k.idx, m)
             got(t) ==
                 IF ~t.res.ok THEN Decoded(t.res, m)
                 ELSE IF t.res.val.field_num = {0}
                      THEN got_int32(decode_int32(sub, t.idx))
                 ELSE IF t.res.val.field_num = {0, 1}
                      THEN got_uint32(decode_uint32(sub, t.idx))
                 ELSE skipped_value(skip_wire_value(sub, t.idx, t.res.val))
         IN  got(decode_tag(sub, j))

\* MessageDecode::decode_len_delimited: the length prefix, then that many bytes
decode_len_delimited(b, i, m) ==
    LET done(o, l) == [idx |-> o.idx, res |-> l.res, msg |-> l.msg]
        got(o) ==
            IF ~o.res.ok THEN [idx |-> o.idx, res |-> o.res, msg |-> m]
            ELSE done(o, basic_decode(o.res.val, 0, m))
    IN  got(decode_len_slice(b, i))

-----------------------------------------------------------------------------
(* Tag(u32) of micropb/src/lib.rs: wire_type is a u8 <= 7 (debug_assert) *)

Tag_from_parts_shift2(field_num, wire_type) ==
    Shl(field_num, 2, 32) \cup FromU8(wire_type)
Tag_from_parts(field_num, wire_type) ==
    Shl(field_num, 3, 32) \cup FromU8(wire_type)

Tag_wire_type(t) == ToNat(Truncate(t \cap (0..2), 8))

Tag_field_num(t) == Shr(t, 3)

Tag_varint(t) == t

-----------------------------------------------------------------------------
(* Presence.  ImplicitPresence of micropb/src/lib.rs, and a generated      *)
(* message with one field of each kind: Nested of tests/basic-proto        *)
(* (extern_import.rs) has the explicit-presence sub-message basic: Empty   *)
(* at field 1; beside it are a uint32, a bool, a string and a float field  *)
(* with implicit presence and an optional uint32 with a hazzer.  The       *)
(* generated encode, compute_size and decode and the encoder primitives    *)
(* are not part of the sources; they follow the specification.             *)

\* impl_implicit_presence_num!(u32): !self.is_zero(); the faulty variant
\* takes every number as present
pb_is_present_num_always(x) == TRUE
pb_is_present_num(x) == x # {}

\* impl_implicit_presence_num!(f32) on the bit pattern of the float:
\* is_zero is self == 0.0, which holds of 0.0 and of -0.0
pb_is_present_f32(x) == ~(x \subseteq {31})

\* impl ImplicitPresence for bool: *self
pb_is_present_bool(x) == x

\* impl ImplicitPresence for str: !self.is_empty()
pb_is_present_str(x) == Len(x) # 0

DefaultNested ==
    [has_basic |-> FALSE, num |-> {}, flag |-> FALSE, name |-> <<>>,
     has_opt |-> FALSE, opt |-> {}, ratio |-> {}]

\* encode_varint32: base 128, least significant group first
RECURSIVE encode_varint(_)
encode_varint(x) ==
    IF Shr(x, 7) = {} THEN <<ToNat(x \cap (0..6))>>
    ELSE <<ToNat(x \cap (0..6)) + 128>> \o encode_varint(Shr(x, 7))

encode_tag(field_num, wire_type) ==
    encode_varint(Tag_varint(Tag_from_parts(NatBits(field_num), wire_type)))

\* u32::to_le_bytes
ToLeBytes(x) ==
    [k \in 1..4 |->
        ToNat({j - 8 * (k - 1) : j \in x \cap ((8 * (k - 1))..(8 * k - 1))})]

\* MessageEncode::encode of Empty writes nothing; its compute_size is 0
Empty_encode == <<>>

Empty_compute_size == 0

\* MessageEncode::encode: the fields in ascending field number, each one
\* only when present
Nested_encode(m) ==
    (IF m.has_basic
     THEN encode_tag(1, WIRE_TYPE_LEN)
              \o encode_varint(NatBits(Empty_compute_size)) \o Empty_encode
     ELSE <<>>)
    \o (IF pb_is_present_num(m.num)
        THEN encode_tag(2, WIRE_TYPE_VARINT) \o encode_varint(m.num)
        ELSE <<>>)
    \o (IF pb_is_present_bool(m.flag)
        THEN encode_tag(3, WIRE_TYPE_VARINT) \o <<1>>
        ELSE <<>>)
    \o (IF pb_is_present_str(m.name)
        THEN encode_tag(4, WIRE_TYPE_LEN)
                 \o encode_varint(NatBits(Len(m.name))) \o m.name
        ELSE <<>>)
    \o (IF m.has_opt
        THEN encode_tag(5, WIRE_TYPE_VARINT) \o encode_varint(m.opt)
        ELSE <<>>)
    \o (IF pb_is_present_f32(m.ratio)
        THEN encode_tag(6, WIRE_TYPE_I32) \o ToLeBytes(m.ratio)
        ELSE <<>>)

\* sizeof_varint32: the number of 7-bit groups up to the highest one bit
sizeof_varint(x) ==
    IF x = {} THEN 1
    ELSE ((CHOOSE k \in x : \A j \in x : j <= k) \div 7) + 1

sizeof_tag(field_num, wire_type) ==
    sizeof_varint(Tag_varint(Tag_from_parts(NatBits(field_num), wire_type)))

\* MessageEncode::compute_size: the size surface that mirrors encode
Nested_compute_size(m) ==
    (IF m.has_basic
     THEN sizeof_tag(1, WIRE_TYPE_LEN)
              + sizeof_varint(NatBits(Empty_compute_size))
              + Empty_compute_size
     ELSE 0)
    + (IF pb_is_present_num(m.num)
       THEN sizeof_tag(2, WIRE_TYPE_VARINT) + sizeof_varint(m.num) ELSE 0)
    + (IF pb_is_present_bool(m.flag)
       THEN sizeof_tag(3, WIRE_TYPE_VARINT) + 1 ELSE 0)
    + (IF pb_is_present_str(m.name)
       THEN sizeof_tag(4, WIRE_TYPE_LEN)
                + sizeof_varint(NatBits(Len(m.name))) + Len(m.name)
       ELSE 0)
    + (IF m.has_opt
       THEN sizeof_tag(5, WIRE_TYPE_VARINT) + sizeof_varint(m.opt) ELSE 0)
    + (IF pb_is_present_f32(m.ratio)
       THEN sizeof_tag(6, WIRE_TYPE_I32) + 4 ELSE 0)

\* The value read for field number f, and the message with it stored; a
\* field with a hazzer has its bit set
Nested_field(f, b, i) ==
    CASE f = 1 -> Drop(decode_len_slice(b, i))
      [] f = 2 -> decode_uint32(b, i)
      [] f = 3 -> decode_bool(b, i)
      [] f = 4 -> decode_len_slice(b, i)
      [] f = 5 -> decode_uint32(b, i)
      [] f = 6 -> decode_fixed32(b, i)

Nested_store(m, f, v) ==
    CASE f = 1 -> [m EXCEPT !.has_basic = TRUE]
      [] f = 2 -> [m EXCEPT !.num = v]
      [] f = 3 -> [m EXCEPT !.flag = v]
      [] f = 4 -> [m EXCEPT !.name = v]
      [] f = 5 -> [m EXCEPT !.opt = v, !.has_opt = TRUE]
      [] f = 6 -> [m EXCEPT !.ratio = v]

\* MessageDecode::decode(decoder, len) with len the whole of the reader
RECURSIVE Nested_decode(_, _, _)
Nested_decode(b, i, m) ==
    IF ~(remaining(b, i) > 0) THEN [idx |-> i, res |-> Ok(Unit), msg |-> m]
    ELSE LET got_field(f, e) ==
                 IF ~e.res.ok THEN [idx |-> e.idx, res |-> e.res, msg |-> m]
                 ELSE Nested_decode(b, e.idx, Nested_store(m, f, e.res.val))
             skipped_value(k) ==
                 IF ~k.res.ok THEN [idx |-> k.idx, res |-> k.res, msg |-> m]
                 ELSE Nested_decode(b, k.idx, m)
             known(f, t) == got_field(f, Nested_field(f, b, t.idx))
             got(t) ==
                 IF ~t.res.ok THEN [idx |-> t.idx, res |-> t.res, msg |-> m]
                 ELSE IF t.res.val.field_num \in {NatBits(f) : f \in 1..6}
                      THEN known(ToNat(t.res.val.field_num), t)
                 ELSE skipped_value(skip_wire_value(b, t.idx, t.res.val))
         IN  got(decode_tag(b, i))

-----------------------------------------------------------------------------
(* Inputs *)

ContBytes == {128, 255}
HeadBytes == {129, 254}
TailBytes == {0, 1, 3, 127}

Run(c, k) == [j \in 1..k |-> c]

SeqsUpTo(S, n) == UNION {[1..k -> S] : k \in 0..n}

\* An optional head byte, a run of continuation bytes, a tail
VarintInputs ==
    {h \o Run(c, k) \o t :
        h \in {<<>>} \cup {<<x>> : x \in HeadBytes},
        c \in ContBytes, k \in 0..MaxRun, t \in SeqsUpTo(TailBytes, MaxTail)}

\* Tags: a run of continuation bytes and a last byte
TagLastBytes == {0, 3, 15, 44, 127}

TagInputs ==
    {Run(c, k) \o <<t>> :
        c \in ContBytes, k \in 0..MaxTagRun, t \in TagLastBytes}
    \cup {<<223, 3>>}

\* Field numbers handed to Tag::from_parts, as sets of one bits
TagFieldBits == {0, 2, 28, 29}

\* Fields of number 3, one per wire type, that a decoder of a message with
\* fields 1 and 2 does not know: tag byte (3 << 3) | wire type, then the value
UnknownFields ==
    {<<24>> \o Run(255, BYTES64 - 1) \o <<1>>,
     <<25, 1, 2, 3, 4, 5, 6, 7, 8>>,
     <<26, 2, 171, 205>>,
     <<26, 0>>,
     <<29, 156, 161, 245, 255>>,
     <<27>>}

\* Fields 1 and 2: varint, LEN, I32
KnownFields ==
    {<<8, 150, 1>>, <<18, 1, 171>>, <<13, 18, 50, 152, 244>>}

\* Wire types handed to skip_wire_value: the 3-bit ones, and a u8 beyond them
SkipWireTypes == (0..7) \cup {10}

RECURSIVE Flatten(_)
Flatten(ss) == IF ss = <<>> THEN <<>> ELSE Head(ss) \o Flatten(Tail(ss))

\* At most one unknown field, then a known field or nothing
SkipInputs ==
    {u \o k : u \in UnknownFields \cup {<<>>}, k \in KnownFields \cup {<<>>}}

\* Unknown fields, then a known field or nothing
FieldInputs ==
    {Flatten(us) \o k :
        us \in SeqsUpTo(UnknownFields, MaxUnknown),
        k \in KnownFields \cup {<<>>}}

\* A one-byte length prefix n, then up to MaxPayload bytes: n short of them,
\* equal to them or beyond them
PackedBytes == {0, 1, 150, 128}

PackedInputs ==
    {<<n>> \o p :
        n \in 0..(MaxPayload + 1), p \in SeqsUpTo(PackedBytes, MaxPayload)}

\* Map entries.  Fields of an entry: key 5, key 150, value 7, an unknown
\* varint, an unknown LEN, a group start
EntryFields ==
    {<<8, 5>>, <<8, 150, 1>>, <<16, 7>>, <<24, 9>>, <<26, 1, 171>>, <<27>>}

EntryPayloads == {Flatten(fs) : fs \in SeqsUpTo(EntryFields, MaxEntryFields)}

\* The length of the payload or one less, the payload, and nothing or a
\* value field behind the entry
EntryInputs ==
    UNION {{<<n>> \o p \o t :
                n \in {Len(p)} \cup {m \in {Len(p) - 1} : m >= 0},
                t \in {<<>>, <<16, 7>>}} :
           p \in EntryPayloads}

\* Decoders the key and value updaters use
MapDecodeFns == {"decode_uint32", "decode_bool"}

\* Messages.  Fields: int32_num 150, int32_num 5, int32_num -2 in its
\* ten-byte encoding, uint32_num 278, and field 2, which BasicTypes here
\* does not decode
MessageFields ==
    {<<8, 150, 1>>, <<8, 5>>, <<8, 254>> \o Run(255, 8) \o <<1>>,
     <<24, 150, 2>>, <<16, 9>>}

MessagePayloads == {Flatten(fs) : fs \in SeqsUpTo(MessageFields, MaxMsgFields)}

\* The length of the payload or one less, the payload, and nothing or a
\* second message
MessageInputs ==
    UNION {{<<n>> \o p \o t :
                n \in {Len(p)} \cup {m \in {Len(p) - 1} : m >= 0},
                t \in {<<>>, <<3, 24, 150, 2>>}} :
           p \in MessagePayloads}

\* The messages a caller builds: every combination of these field values
NestedMessages ==
    [has_basic : BOOLEAN, num : {{}, NatBits(1), NatBits(150)},
     flag : BOOLEAN, name : {<<>>, <<97>>},
     has_opt : BOOLEAN, opt : {{}, NatBits(5)},
     ratio : {{}, {31}, 23..29}]

\* Encoded messages: empty, basic, num 0, num 150, flag, name "a", opt 0,
\* basic and opt 5, ratio 1.0, field 7, and basic cut short
PresenceInputs ==
    {<<>>, <<10, 0>>, <<16, 0>>, <<16, 150, 1>>, <<24, 1>>, <<34, 1, 97>>,
     <<40, 0>>, <<10, 0, 40, 5>>, <<53, 0, 0, 128, 63>>, <<56, 1, 10, 0>>,
     <<10>>}

\* Every buffer of up to MaxBuf bytes over: terminators that are also
\* lengths, tags and wire types (0, 2, 8), continuation bytes (128, 255);
\* and longer ones: a varint beyond 10 bytes, 9 bytes for the fixed-width
\* reads, a length of 2^32 - 1, a payload of four elements
CursorBytes == {0, 2, 8, 128, 255}

CursorInputs ==
    SeqsUpTo(CursorBytes, MaxBuf)
    \cup {Run(255, BYTES64 + 1), Run(1, 9), <<255, 255, 255, 255, 15, 0>>,
          <<4, 1, 1, 1, 1, 1>>}

\* PbReader::new(buf)
New(inputs) ==
    /\ buf \in inputs
    /\ idx = 0
    /\ start = 0
    /\ op = "new"
    /\ arg = Unit
    /\ res = Ok(Unit)
    /\ tag = TagOf({}, 0)
    /\ vec = <<>>
    /\ skipped = 0
    /\ basic = DefaultBasic
    /\ nested = DefaultNested
    /\ out = <<>>

-----------------------------------------------------------------------------
(* Operations on the reader *)

Call(name, a, o) ==
    /\ op' = name
    /\ arg' = a
    /\ start' = idx
    /\ idx' = o.idx
    /\ res' = o.res
    /\ UNCHANGED buf

\* A read of a value: the read of a known field when it follows its tag
Scalar(name, o) ==
    /\ Call(name, Unit, o)
    /\ skipped' = IF skipped >= 0 /\ op = "decode_tag" /\ res.ok
                  THEN skipped ELSE -1
    /\ UNCHANGED <<tag, vec, basic, nested, out>>

DecodeUint32 == Scalar("decode_uint32", decode_uint32(buf, idx))
DecodeUint64 == Scalar("decode_uint64", decode_uint64(buf, idx))
DecodeInt32 == Scalar("decode_int32", decode_int32(buf, idx))
DecodeInt64 == Scalar("decode_int64", decode_int64(buf, idx))
DecodeSint32 == Scalar("decode_sint32", decode_sint32(buf, idx))
DecodeSint64 == Scalar("decode_sint64", decode_sint64(buf, idx))
DecodeBool == Scalar("decode_bool", decode_bool(buf, idx))
SkipVarint == Scalar("skip_varint", skip_varint(buf, idx))

InitVarint == New(VarintInputs)

NextVarint ==
    \/ DecodeUint32
    \/ DecodeUint64
    \/ DecodeInt32
    \/ DecodeInt64
    \/ DecodeSint32
    \/ DecodeSint64
    \/ DecodeBool
    \/ SkipVarint

SpecVarint == InitVarint /\ [][NextVarint]_vars

DecodeFixed32 == Scalar("decode_fixed32", decode_fixed32(buf, idx))
DecodeFixed64 == Scalar("decode_fixed64", decode_fixed64(buf, idx))
DecodeLenSlice == Scalar("decode_len_slice", decode_len_slice(buf, idx))

DecodeTag ==
    LET o == decode_tag(buf, idx) IN
    /\ Call("decode_tag", Unit, o)
    /\ tag' = IF o.res.ok THEN o.res.val ELSE tag
    /\ skipped' = IF skipped >= 0 /\ op \in {"new", "skip_wire_value"}
                  THEN skipped ELSE -1
    /\ UNCHANGED <<vec, basic, nested, out>>

\* skip_wire_value(&tag) with any wire type
SkipWireValue ==
    \E w \in SkipWireTypes :
        LET t == TagOf({}, w)
            o == skip_wire_value(buf, idx, t)
        IN  /\ Call("skip_wire_value", t, o)
            /\ skipped' = -1
            /\ UNCHANGED <<tag, vec, basic, nested, out>>

\* skip_wire_value(&tag) with the tag just read: an unknown field is skipped
SkipField ==
    LET o == skip_wire_value(buf, idx, tag) IN
    /\ Call("skip_wire_value", tag, o)
    /\ skipped' = IF skipped >= 0 /\ op = "decode_tag" /\ res.ok /\ o.res.ok
                  THEN skipped + 1 ELSE -1
    /\ UNCHANGED <<tag, vec, basic, nested, out>>

\* Tag::from_parts(field_num, wire_type)
TagFromParts ==
    \E f \in SUBSET TagFieldBits, w \in 0..7 :
        /\ op' = "Tag::from_parts"
        /\ arg' = TagOf(f, w)
        /\ res' = Ok(Tag_from_parts(f, w))
        /\ start' = idx
        /\ skipped' = -1
        /\ UNCHANGED <<buf, idx, tag, vec, basic, nested, out>>

\* decode_packed(&mut vec, decoder)
DecodePacked ==
    \E d \in DecodeFns :
        LET o == decode_packed(buf, idx, vec, d) IN
        /\ Call("decode_packed", [decoder |-> d, vec |-> vec], o)
        /\ vec' = o.vec
        /\ skipped' = -1
        /\ UNCHANGED <<tag, basic, nested, out>>

DecodeString ==
    LET o == decode_string(buf, idx, vec) IN
    /\ Call("decode_string", [vec |-> vec], o)
    /\ vec' = o.vec
    /\ skipped' = -1
    /\ UNCHANGED <<tag, basic, nested, out>>

DecodeBytes ==
    LET o == decode_bytes(buf, idx, vec) IN
    /\ Call("decode_bytes", [vec |-> vec], o)
    /\ vec' = o.vec
    /\ skipped' = -1
    /\ UNCHANGED <<tag, basic, nested, out>>

InitContainer == New(PackedInputs)

NextContainer ==
    \/ DecodePacked
    \/ DecodeString
    \/ DecodeBytes

SpecContainer == InitContainer /\ [][NextContainer]_vars

InitPacked == New(PackedInputs)

NextPacked == DecodePacked

SpecPacked == InitPacked /\ [][NextPacked]_vars

\* decode_map_elem(key_update, val_update)
DecodeMapElem ==
    \E kd \in MapDecodeFns, vd \in MapDecodeFns :
        /\ Call("decode_map_elem", [key |-> kd, val |-> vd],
                decode_map_elem(buf, idx, kd, vd))
        /\ skipped' = -1
        /\ UNCHANGED <<tag, vec, basic, nested, out>>

InitMap == New(EntryInputs)

NextMap == DecodeMapElem

SpecMap == InitMap /\ [][NextMap]_vars

\* basic.decode_len_delimited(&mut decoder)
DecodeLenDelimited ==
    LET o == decode_len_delimited(buf, idx, basic) IN
    /\ Call("decode_len_delimited", basic, o)
    /\ basic' = o.msg
    /\ skipped' = -1
    /\ UNCHANGED <<tag, vec, nested, out>>

InitMessage == New(MessageInputs)

NextMessage == DecodeLenDelimited

SpecMessage == InitMessage /\ [][NextMessage]_vars

\* nested.encode(&mut PbEncoder::new(vec![])), then encoder.into_writer()
Encode ==
    /\ op' = "encode"
    /\ arg' = nested
    /\ res' = Ok(Unit)
    /\ out' = Nested_encode(nested)
    /\ UNCHANGED <<buf, idx, start, tag, vec, skipped, basic, nested>>

\* nested.compute_size()
ComputeSize ==
    /\ op' = "compute_size"
    /\ arg' = nested
    /\ res' = Ok(Nested_compute_size(nested))
    /\ UNCHANGED <<buf, idx, start, tag, vec, skipped, basic, nested, out>>

\* nested.decode(&mut PbDecoder::new(buf), len) with a decoder of its own
DecodeNested ==
    LET o == Nested_decode(buf, 0, nested) IN
    /\ op' = "decode"
    /\ arg' = nested
    /\ start' = 0
    /\ idx' = o.idx
    /\ res' = o.res
    /\ nested' = o.msg
    /\ skipped' = -1
    /\ UNCHANGED <<buf, tag, vec, basic, out>>

InitPresence ==
    /\ buf \in PresenceInputs
    /\ idx = 0
    /\ start = 0
    /\ op = "new"
    /\ arg = Unit
    /\ res = Ok(Unit)
    /\ tag = TagOf({}, 0)
    /\ vec = <<>>
    /\ skipped = 0
    /\ basic = DefaultBasic
    /\ nested \in NestedMessages
    /\ out = <<>>

NextPresence ==
    \/ Encode
    \/ ComputeSize
    \/ DecodeNested

SpecPresence == InitPresence /\ [][NextPresence]_vars

InitCursor == New(CursorInputs)

NextCursor ==
    \/ DecodeUint32
    \/ DecodeUint64
    \/ DecodeInt32
    \/ DecodeInt64
    \/ DecodeSint32
    \/ DecodeSint64
    \/ DecodeBool
    \/ SkipVarint
    \/ DecodeFixed32
    \/ DecodeFixed64
    \/ DecodeLenSlice
    \/ DecodeTag
    \/ SkipWireValue
    \/ DecodePacked
    \/ DecodeMapElem
    \/ DecodeString
    \/ DecodeBytes

SpecCursor == InitCursor /\ [][NextCursor]_vars

InitTag == New(TagInputs)

NextTag ==
    \/ TagFromParts
    \/ DecodeTag

SpecTag == InitTag /\ [][NextTag]_vars

InitSkip == New(SkipInputs)

NextSkip ==
    \/ DecodeTag
    \/ SkipWireValue

SpecSkip == InitSkip /\ [][NextSkip]_vars

InitFields == New(FieldInputs)

NextFields ==
    \/ DecodeTag
    \/ SkipField
    \/ DecodeUint32
    \/ DecodeFixed32
    \/ DecodeLenSlice

SpecFields == InitFields /\ [][NextFields]_vars

-----------------------------------------------------------------------------
(* Vocabulary of the properties *)

\* The k-th byte from cursor s is the first one with the high bit clear
IsFirstClear(b, s, k) ==
    /\ s + k <= Len(b)
    /\ b[s + k] < 128
    /\ \A m \in 1..(k - 1) : b[s + m] >= 128

\* The first n bytes from cursor s are there and all have the high bit set
AllCont(b, s, n) ==
    /\ s + n <= Len(b)
    /\ \A m \in 1..n : b[s + m] >= 128

\* The input ends within n bytes of s with no byte with the high bit clear
EndsInCont(b, s, n) ==
    /\ Len(b) < s + n
    /\ \A m \in 1..(Len(b) - s) : b[s + m] >= 128

\* Sum over i < k of (b_i & 0x7F) << 7i, modulo 2^w: the 7-bit groups do not
\* overlap, so bit j of the sum is bit j % 7 of byte j \div 7
VarintValue(b, s, k, w) ==
    {j \in 0..(w - 1) : j \div 7 < k /\ Bit(b[s + 1 + (j \div 7)], j % 7)}

Bytes(b, s, n) == IF s + n <= Len(b) THEN SubSeq(b, s + 1, s + n) ELSE <<>>

-----------------------------------------------------------------------------
(* C1: whenever the first byte with the high bit clear is the k-th byte    *)
(* from the cursor, k <= 5 for decode_uint32 and k <= 10 for               *)
(* decode_uint64, the decoder succeeds, consumes exactly k bytes and       *)
(* returns the sum of (b_i & 0x7F) << 7i modulo 2^32 (2^64): value bits of *)
(* the last byte beyond the width are dropped, never an error.             *)

C1_Decodes(name, w, bytes) ==
    op = name =>
        \A k \in 1..bytes :
            IsFirstClear(buf, start, k) =>
                /\ res.ok
                /\ idx = start + k
                /\ res.val = VarintValue(buf, start, k, w)

C1_VarintValue ==
    /\ C1_Decodes("decode_uint32", 32, 5)
    /\ C1_Decodes("decode_uint64", 64, 10)

\* [0x81,0x80,0x80,0x80,0x7F] decoded as u32 to 0xF0000001
C1_Witness ==
    /\ op = "decode_uint32"
    /\ Bytes(buf, start, 5) = <<129, 128, 128, 128, 127>>
    /\ res.ok
    /\ idx = start + 5
    /\ res.val = {0, 28, 29, 30, 31}

(* C2: a varint primitive with byte limit n (5 for decode_uint32, 10 for   *)
(* decode_uint64 and skip_varint, 1 for decode_bool) fails with            *)
(* VarIntLimit(n) exactly when the first n bytes are there and all have    *)
(* the high bit set; when the input ends earlier with no byte with the     *)
(* high bit clear it fails with UnexpectedEof; decode_bool on a byte       *)
(* without the high bit returns byte != 0.                                 *)

C2_Limit(name, n) ==
    op = name =>
        /\ (res = Err(VarIntLimit(n))) <=> AllCont(buf, start, n)
        /\ EndsInCont(buf, start, n) => res = Err(UnexpectedEof)

C2_VarIntLimit ==
    /\ C2_Limit("decode_uint32", 5)
    /\ C2_Limit("decode_uint64", 10)
    /\ C2_Limit("skip_varint", 10)
    /\ C2_Limit("decode_bool", 1)
    /\ (op = "decode_bool" /\ IsFirstClear(buf, start, 1)) =>
            res = Ok(buf[start + 1] # 0)

\* ten continuation bytes and more input behind them
C2_Witness ==
    /\ op = "decode_uint64"
    /\ res = Err(VarIntLimit(10))
    /\ Len(buf) > start + 10

(* C3: decode_int32 reads a 64-bit varint of up to 10 bytes and keeps its  *)
(* low 32 bits as a two's complement i32: the ten-byte sign-extended       *)
(* encoding of a negative int32 decodes to it ([0xFE,0xFF x8,0x01] is -2), *)
(* and the error is never VarIntLimit(5).                                  *)

C3_Int32Narrows ==
    op = "decode_int32" =>
        /\ \A k \in 1..10 :
               IsFirstClear(buf, start, k) =>
                   /\ res.ok
                   /\ idx = start + k
                   /\ res.val = VarintValue(buf, start, k, 64) \cap (0..31)
        /\ res.err # VarIntLimit(5)
        /\ Bytes(buf, start, 10) =
               <<254, 255, 255, 255, 255, 255, 255, 255, 255, 1>> =>
                   res = Ok(Twos(-2, 32))

C3_Witness ==
    /\ op = "decode_int32"
    /\ Bytes(buf, start, 10) = <<254, 255, 255, 255, 255, 255, 255, 255, 255, 1>>
    /\ idx = start + 10
    /\ res = Ok(Twos(-2, 32))

(* C4: ZigZag round trip: the value n that decode_sint32 (decode_sint64)   *)
(* returns for the unsigned varint u is the one whose encoding             *)
(* (n << 1) ^ (n >> (width-1)) is u, so decoding the encoding of n gives   *)
(* n; 0xFFFFFFFF gives -0x80000000 and 0xFFFFFFFE gives 0x7FFFFFFF.        *)

\* n >> (w - 1) on a signed n: every bit a copy of the sign bit
SignFill(n, w) == IF (w - 1) \in n THEN 0..(w - 1) ELSE {}

ZigZagEncode(n, w) == BitXor(Shl(n, 1, w), SignFill(n, w))

C4_RoundTrip(name, w) ==
    (op = name /\ res.ok) =>
        LET u == VarintValue(buf, start, idx - start, w)
            n == res.val
        IN  /\ ZigZagEncode(n, w) = u
            /\ u = 0..(w - 1) => n = {w - 1}
            /\ u = 1..(w - 1) => n = 0..(w - 2)

C4_ZigZag ==
    /\ C4_RoundTrip("decode_sint32", 32)
    /\ C4_RoundTrip("decode_sint64", 64)

\* [0xFF,0xFF,0xFF,0xFF,0x7F] decoded as sint32 to -0x80000000
C4_Witness ==
    /\ op = "decode_sint32"
    /\ res.ok
    /\ VarintValue(buf, start, idx - start, 32) = 0..31
    /\ res.val = {31}

(* C5: Tag bijection: for field numbers f < 2^29 and wire types w <= 7,    *)
(* Tag::from_parts(f, w) has field_num() = f, wire_type() = w and          *)
(* varint() = (f << 3) | w; and decode_tag on the varint u returns         *)
(* field_num = u >> 3 and wire_type = u & 7 <= 7 for every wire type, so   *)
(* that from_parts of the parts it returns is u again.                     *)

C5_TagBijection ==
    /\ (op = "Tag::from_parts" /\ arg.field_num \subseteq 0..28) =>
           /\ Tag_field_num(res.val) = arg.field_num
           /\ Tag_wire_type(res.val) = arg.wire_type
           /\ Tag_varint(res.val) =
                  {j + 3 : j \in arg.field_num} \cup NatBits(arg.wire_type)
    /\ (op = "Tag::from_parts" /\ arg = TagOf({0, 2}, 4)) =>
           Tag_varint(res.val) = NatBits(44)
    /\ op = "decode_tag" =>
           \A k \in 1..5 :
               IsFirstClear(buf, start, k) =>
                   LET u == VarintValue(buf, start, k, 32) IN
                   /\ res.ok
                   /\ idx = start + k
                   /\ res.val.field_num = {j - 3 : j \in u \ (0..2)}
                   /\ NatBits(res.val.wire_type) = u \cap (0..2)
                   /\ res.val.wire_type <= 7
                   /\ Tag_from_parts(res.val.field_num, res.val.wire_type) = u

\* the largest field number, 2^29 - 1 would do as well: bit 28 is kept
C5_Witness ==
    /\ op = "Tag::from_parts"
    /\ arg = TagOf({0, 2, 28}, 7)
    /\ Tag_field_num(res.val) = {0, 2, 28}
    /\ Tag_wire_type(res.val) = 7
    /\ 31 \in Tag_varint(res.val)

(* C6: skip_wire_value dispatches on the wire type of the tag: 0 skips one *)
(* varint of at most 10 bytes, 1 advances exactly 8 bytes, 5 exactly 4     *)
(* bytes, 2 reads a uint32 varint length L and advances exactly L more     *)
(* bytes (UnexpectedEof when fewer remain), 3 and 4 return Deprecation and *)
(* any other w returns BadWireType(w); the last two consume no byte.       *)

C6_Fixed(n) ==
    IF Len(buf) - start >= n
    THEN res = Ok(Unit) /\ idx = start + n
    ELSE res = Err(UnexpectedEof)

C6_SkipWireValue ==
    op = "skip_wire_value" =>
        LET w == arg.wire_type IN
        /\ w = 0 =>
               /\ \A k \in 1..10 :
                      IsFirstClear(buf, start, k) =>
                          res = Ok(Unit) /\ idx = start + k
               /\ AllCont(buf, start, 10) => res = Err(VarIntLimit(10))
               /\ res.ok => idx - start \in 1..10
        /\ w = 1 => C6_Fixed(8)
        /\ w = 5 => C6_Fixed(4)
        /\ w = 2 =>
               \A k \in 1..5 :
                   IsFirstClear(buf, start, k) =>
                       LET L == VarintValue(buf, start, k, 32) IN
                       IF L \subseteq 0..29 /\ ToNat(L) <= Len(buf) - (start + k)
                       THEN res = Ok(Unit) /\ idx = start + k + ToNat(L)
                       ELSE res = Err(UnexpectedEof)
        /\ w \in {3, 4} => res = Err(Deprecation) /\ idx = start
        /\ w \notin 0..5 => res = Err(BadWireType(w)) /\ idx = start

\* a LEN field with a two-byte payload is skipped: prefix and payload
C6_Witness ==
    /\ op = "skip_wire_value"
    /\ arg.wire_type = 2
    /\ Bytes(buf, start, 1) = <<2>>
    /\ res = Ok(Unit)
    /\ idx = start + 3

(* C7: skip invariance: after N unknown fields, each read by decode_tag    *)
(* and skipped by skip_wire_value, the read of the known field (its tag,   *)
(* then its value) returns what the same read returns on a reader over the *)
(* known field alone, and consumes as much.                                *)

Suffix(b, n) == SubSeq(b, n + 1, Len(b))

IsPrefix(u, b) == Len(u) <= Len(b) /\ SubSeq(b, 1, Len(u)) = u

FieldReads == {"decode_uint32", "decode_fixed32", "decode_len_slice"}

ReadOn(name, b, i) ==
    CASE name = "decode_uint32" -> decode_uint32(b, i)
      [] name = "decode_fixed32" -> decode_fixed32(b, i)
      [] name = "decode_len_slice" -> decode_len_slice(b, i)

C7_SkipInvariance ==
    (skipped >= 1 /\ op \in {"decode_tag"} \cup FieldReads) =>
        \A us \in [1..skipped -> UnknownFields] :
            LET unknown == Flatten(us)
                n == Len(unknown)
                known == Suffix(buf, n)
                t == decode_tag(known, 0)
            IN  IsPrefix(unknown, buf) =>
                    IF op = "decode_tag"
                    THEN /\ start = n
                         /\ res = t.res
                         /\ idx = n + t.idx
                    ELSE LET v == ReadOn(op, known, t.idx) IN
                         /\ t.res = Ok(tag)
                         /\ start = n + t.idx
                         /\ res = v.res
                         /\ idx = n + v.idx

\* two unknown fields skipped, then field 1 read as the varint 150
C7_Witness ==
    /\ skipped >= 2
    /\ op = "decode_uint32"
    /\ tag = TagOf({0}, 0)
    /\ res = Ok(NatBits(150))
    /\ idx = Len(buf)

(* C8: decode_packed reads a length prefix L and runs the element decoder  *)
(* on a sub-reader over exactly the L payload bytes until it is empty,     *)
(* pushing the elements in wire order.  No element decode reads a byte     *)
(* behind the payload: the outcome is that of the same call on the buffer  *)
(* cut off behind the payload, an element cut off by the end of the        *)
(* payload fails with UnexpectedEof whatever follows, and on success the   *)
(* outer reader has advanced by the prefix and L bytes.                    *)

\* The positions in the payload of the bytes that end a varint, and the j-th
VarintEnds(pay) == {p \in 1..Len(pay) : pay[p] < 128}

VarintEnd(pay, j) ==
    IF j = 0 THEN 0
    ELSE CHOOSE p \in VarintEnds(pay) :
             Cardinality({q \in VarintEnds(pay) : q <= p}) = j

C8_Payload(k, len) ==
    LET end == start + k + len
        pay == SubSeq(buf, start + k + 1, end)
        d == arg.decoder
        cut == decode_packed(SubSeq(buf, 1, end), start, arg.vec, d)
        room == VecCap - Len(arg.vec)
    IN  /\ res.ok => idx = end
        /\ res = cut.res /\ vec = cut.vec /\ idx = cut.idx
        /\ (d \in {"decode_uint32", "decode_sint32"} /\ len > 0 /\ pay[len] >= 128)
               => ~res.ok
        /\ ( /\ d = "decode_uint32"
             /\ len > 0
             /\ pay[len] >= 128
             /\ \A m \in 1..(len - 1) : pay[m] < 128
             /\ len - 1 <= room )
               => /\ res = Err(UnexpectedEof)
                  /\ vec = arg.vec \o [m \in 1..(len - 1) |-> FromU8(pay[m])]
        /\ (d = "decode_fixed32" /\ len % 4 # 0 /\ len \div 4 <= room)
               => res = Err(UnexpectedEof)
        /\ (d = "decode_uint32" /\ res.ok)
               => LET n == Cardinality(VarintEnds(pay)) IN
                  /\ len > 0 => pay[len] < 128
                  /\ vec = arg.vec \o
                         [j \in 1..n |->
                             VarintValue(pay, VarintEnd(pay, j - 1),
                                 VarintEnd(pay, j) - VarintEnd(pay, j - 1), 32)]
        /\ (d = "decode_fixed32" /\ res.ok)
               => /\ len % 4 = 0
                  /\ vec = arg.vec \o
                         [j \in 1..(len \div 4) |->
                             FromLeBytes(SubSeq(pay, 4 * j - 3, 4 * j))]

C8_DecodePacked ==
    op = "decode_packed" =>
        \A k \in 1..5 :
            IsFirstClear(buf, start, k) =>
                LET L == VarintValue(buf, start, k, 32) IN
                IF L \subseteq 0..29 /\ ToNat(L) <= Len(buf) - (start + k)
                THEN C8_Payload(k, ToNat(L))
                ELSE res = Err(UnexpectedEof) /\ vec = arg.vec

\* elements were pushed, the last one is cut off by the end of the payload,
\* and the outer buffer has more bytes
C8_Witness ==
    /\ op = "decode_packed"
    /\ arg.decoder = "decode_uint32"
    /\ res = Err(UnexpectedEof)
    /\ idx < Len(buf)
    /\ Len(vec) = Len(arg.vec) + 2
    /\ buf[idx] >= 128

(* C9: decode_map_elem parses one length-delimited entry tag by tag on a   *)
(* sub-reader: field 1 goes to the key updater, field 2 to the value       *)
(* updater, any other field is skipped by its wire type; it returns        *)
(* Some((key, value)) only if both slots were filled and Ok(None), not an  *)
(* error, otherwise.                                                       *)

\* Entry fields whose value is a complete varint or LEN value
WellFormedEntryFields == {f \in EntryFields : f # <<27>>}

FieldNumOf(f) == f[1] \div 8

ValueOf(f) == VarintValue(f, 1, Len(f) - 1, 32)

\* The index of the last field of number n in fs, 0 when there is none
LastOf(fs, n) ==
    LET at == {j \in 1..Len(fs) : FieldNumOf(fs[j]) = n} IN
    IF at = {} THEN 0 ELSE CHOOSE j \in at : \A m \in at : m <= j

\* What an entry made of the fields fs is to decode to
EntryOf(fs) ==
    IF LastOf(fs, 1) = 0 \/ LastOf(fs, 2) = 0 THEN None
    ELSE Some(<<ValueOf(fs[LastOf(fs, 1)]), ValueOf(fs[LastOf(fs, 2)])>>)

C9_Entry(k, len) ==
    LET end == start + k + len
        pay == SubSeq(buf, start + k + 1, end)
        cut == decode_map_elem(SubSeq(buf, 1, end), start, arg.key, arg.val)
    IN  /\ res.ok => idx = end
        /\ res = cut.res /\ idx = cut.idx
        /\ (res.ok /\ res.val # None) =>
               /\ \E p \in 1..len : (pay[p] % 128) \div 8 = 1
               /\ \E p \in 1..len : (pay[p] % 128) \div 8 = 2
        /\ (arg.key = "decode_uint32" /\ arg.val = "decode_uint32") =>
               \A fs \in SeqsUpTo(WellFormedEntryFields, MaxEntryFields) :
                   pay = Flatten(fs) => res = Ok(EntryOf(fs))

C9_MapElem ==
    op = "decode_map_elem" =>
        \A k \in 1..5 :
            IsFirstClear(buf, start, k) =>
                LET L == VarintValue(buf, start, k, 32) IN
                IF L \subseteq 0..29 /\ ToNat(L) <= Len(buf) - (start + k)
                THEN C9_Entry(k, ToNat(L))
                ELSE res = Err(UnexpectedEof)

\* an entry holding a key only is dropped, though a value field follows the
\* entry in the outer buffer
C9_Witness ==
    /\ op = "decode_map_elem"
    /\ arg = [key |-> "decode_uint32", val |-> "decode_uint32"]
    /\ Bytes(buf, start, 5) = <<2, 8, 5, 16, 7>>
    /\ idx = start + 3
    /\ res = Ok(None)

(* C10: a field the generator stores at a narrower width holds the wire    *)
(* value truncated to that width (modulo 2^8 here, read with the field's   *)
(* signedness) and is marked present; decode_len_delimited reads the       *)
(* length prefix and decodes that many bytes, and does not fail: int32     *)
(* 150 stored as i8 is -106, uint32 278 stored as u8 is 22.                *)

\* The field of the message that the fields fs leave in slot n (1 or 3):
\* the low 8 bits of the last value, present; else what it was
C10_Slot(fs, n, was, has_was, now, has_now) ==
    IF LastOf(fs, n) = 0 THEN now = was /\ has_now = has_was
    ELSE LET f == fs[LastOf(fs, n)]
             wire == VarintValue(f, 1, Len(f) - 1, 64)
         IN  /\ has_now
             /\ now = {j \in 0..7 : j \in wire}
             /\ wire \subseteq 0..29 => ToNat(now) = ToNat(wire) % 256

C10_Narrowing ==
    op = "decode_len_delimited" =>
        /\ \A fs \in SeqsUpTo(MessageFields, MaxMsgFields) :
               LET p == Flatten(fs) IN
               Bytes(buf, start, 1 + Len(p)) = <<Len(p)>> \o p =>
                   /\ res = Ok(Unit)
                   /\ idx = start + 1 + Len(p)
                   /\ C10_Slot(fs, 1, arg.int32_num, arg.has_int32_num,
                          basic.int32_num, basic.has_int32_num)
                   /\ C10_Slot(fs, 3, arg.uint32_num, arg.has_uint32_num,
                          basic.uint32_num, basic.has_uint32_num)
        /\ Bytes(buf, start, 4) = <<3, 8, 150, 1>> =>
               basic.has_int32_num /\ basic.int32_num = Twos(-106, 8)
        /\ Bytes(buf, start, 4) = <<3, 24, 150, 2>> =>
               basic.has_uint32_num /\ basic.uint32_num = NatBits(22)

\* the two decodes of the test decode_int_overflow, one after the other
C10_Witness ==
    /\ op = "decode_len_delimited"
    /\ Bytes(buf, 0, 8) = <<3, 8, 150, 1, 3, 24, 150, 2>>
    /\ start = 4
    /\ res = Ok(Unit)
    /\ basic.has_int32_num /\ basic.int32_num = Twos(-106, 8)
    /\ basic.has_uint32_num /\ basic.uint32_num = NatBits(22)

(* C11: presence governs emission.  A field with implicit presence is      *)
(* encoded iff its value differs from the default (a non-zero number, a    *)
(* true bool, a non-empty string); a field with explicit presence is       *)
(* encoded iff its hazzer bit is set, whatever its value.  A message whose *)
(* only set field is the empty sub-message at field 1 encodes to           *)
(* [0x0A, 0x00], compute_size returns the encoded length, 2, and decoding  *)
(* [0x0A, 0x00] sets that hazzer bit.                                      *)

\* The field numbers of the fields on the wire b from i, read with the
\* reader; -1 stands for bytes that are not a sequence of fields
RECURSIVE FieldsOn(_, _)
FieldsOn(b, i) ==
    IF remaining(b, i) = 0 THEN {}
    ELSE LET t == decode_tag(b, i) IN
         IF ~t.res.ok THEN {-1}
         ELSE LET k == skip_wire_value(b, t.idx, t.res.val) IN
              IF ~k.res.ok THEN {-1}
              ELSE {ToNat(t.res.val.field_num)} \cup FieldsOn(b, k.idx)

OnlyBasic == [DefaultNested EXCEPT !.has_basic = TRUE]

C11_Presence ==
    /\ op = "encode" =>
           LET E == FieldsOn(out, 0) IN
           /\ -1 \notin E
           /\ 1 \in E <=> nested.has_basic
           /\ 2 \in E <=> nested.num # {}
           /\ 3 \in E <=> nested.flag = TRUE
           /\ 4 \in E <=> nested.name # <<>>
           /\ 5 \in E <=> nested.has_opt
           /\ 6 \in E <=> nested.ratio \notin {{}, {31}}
           /\ nested = OnlyBasic => out = <<10, 0>>
           /\ nested = DefaultNested => out = <<>>
           /\ nested = [DefaultNested EXCEPT !.has_opt = TRUE] =>
                  out = <<40, 0>>
    /\ op = "compute_size" =>
           /\ res = Ok(Len(Nested_encode(nested)))
           /\ nested = OnlyBasic => res = Ok(2)
    /\ (op = "decode" /\ res.ok) =>
           /\ 1 \in FieldsOn(buf, 0) => nested.has_basic
           /\ 5 \in FieldsOn(buf, 0) => nested.has_opt
           /\ (buf = <<10, 0>> /\ arg = DefaultNested) => nested = OnlyBasic
    /\ (op = "decode" /\ buf = <<10, 0>>) => res = Ok(Unit)

\* the message decoded from [0x0A, 0x00] is encoded to [0x0A, 0x00]: its
\* fields with implicit presence are at their defaults and are left out
C11_Witness ==
    /\ op = "encode"
    /\ buf = <<10, 0>>
    /\ idx = 2
    /\ nested = OnlyBasic
    /\ out = <<10, 0>>

(* C12: decoding performs no rollback.  When decode_packed fails part-way, *)
(* because the element decoder returns an error or the container refuses   *)
(* a push (DecodeError::Capacity), the caller's container holds what it     *)
(* held before followed by exactly the elements decoded before the failure, *)
(* in wire order, and nothing behind the failure is pushed.  A failing      *)
(* decode_bytes or decode_string leaves the container as it was, and a      *)
(* write the container refuses is reported as Capacity.                     *)

\* The elements the decoder d reads from the payload pay from j on, up to
\* the end of the payload or to the first element it fails on
RECURSIVE Elements(_, _, _)
Elements(d, pay, j) ==
    IF j >= Len(pay) THEN <<>>
    ELSE LET e == Decoder(d, pay, j) IN
         IF ~e.res.ok THEN <<>>
         ELSE <<[val |-> e.res.val, end |-> e.idx]>> \o Elements(d, pay, e.idx)

C12_Packed(pay) ==
    LET d == arg.decoder
        good == Elements(d, pay, 0)
        room == VecCap - Len(arg.vec)
        n == Len(vec) - Len(arg.vec)
        at == IF n = 0 THEN 0 ELSE good[n].end
    IN  /\ n \in 0..Len(good)
        /\ n <= room
        /\ vec = arg.vec \o [j \in 1..n |-> good[j].val]
        /\ IF n < Len(good)
           THEN res = Err(Capacity) /\ n = room
           ELSE res = Decoder(d, pay, at).res /\ res.err # Capacity

\* The payload behind the length prefix at the cursor the call started at,
\* <<-1>> when the prefix or the payload is cut short
PayloadAt(b, s) ==
    IF \E k \in 1..5 :
           /\ IsFirstClear(b, s, k)
           /\ VarintValue(b, s, k, 32) \subseteq 0..29
           /\ ToNat(VarintValue(b, s, k, 32)) <= Len(b) - (s + k)
    THEN LET k == CHOOSE k \in 1..5 : IsFirstClear(b, s, k)
         IN  SubSeq(b, s + k + 1, s + k + ToNat(VarintValue(b, s, k, 32)))
    ELSE <<-1>>

C12_NoRollback ==
    /\ (op = "decode_packed" /\ ~res.ok) =>
           IF PayloadAt(buf, start) = <<-1>> THEN vec = arg.vec
           ELSE C12_Packed(PayloadAt(buf, start))
    /\ (op \in {"decode_bytes", "decode_string"} /\ ~res.ok) =>
           LET pay == PayloadAt(buf, start) IN
           /\ vec = arg.vec
           /\ res.err = Capacity <=>
                  /\ pay # <<-1>>
                  /\ Len(arg.vec) + Len(pay) > VecCap
                  /\ op = "decode_string" => \A k \in 1..Len(pay) : pay[k] < 128
    /\ op \in {"decode_packed", "decode_bytes", "decode_string"} =>
           /\ Len(vec) <= VecCap
           /\ Len(arg.vec) <= Len(vec)
           /\ SubSeq(vec, 1, Len(arg.vec)) = arg.vec

\* elements were pushed until the vector was full, and the next one, which
\* decodes, was refused
C12_Witness ==
    /\ op = "decode_packed"
    /\ arg.decoder = "decode_uint32"
    /\ res = Err(Capacity)
    /\ Len(vec) = VecCap
    /\ Len(vec) >= Len(arg.vec) + 2
    /\ vec[VecCap] = FromU8(buf[start + 1 + Len(vec) - Len(arg.vec)])

(* C13: the cursor of the reader.  After any sequence of operations on any *)
(* buffer, whether they succeed or fail, 0 <= idx <= buf.len(), so that    *)
(* remaining() does not underflow; no operation moves idx back; no         *)
(* operation indexes the buffer at buf.len() or beyond; and a read or skip *)
(* of 4 or 8 bytes that fails with UnexpectedEof leaves idx where it was.  *)

\* The number of bytes the last operation reads as a block, 0 if it is not
\* a fixed-width read or skip
C13_Fixed ==
    CASE op \in {"decode_fixed32"} -> 4
      [] op \in {"decode_fixed64"} -> 8
      [] op = "skip_wire_value" /\ arg.wire_type = WIRE_TYPE_I32 -> 4
      [] op = "skip_wire_value" /\ arg.wire_type = WIRE_TYPE_I64 -> 8
      [] OTHER -> 0

C13_State ==
    /\ 0 <= idx
    /\ idx <= Len(buf)
    /\ remaining(buf, idx) >= 0
    /\ start <= idx
    /\ res.err # IndexOutOfBounds
    /\ C13_Fixed > 0 =>
           /\ res = Err(UnexpectedEof) => idx = start
           /\ IF Len(buf) - start < C13_Fixed
              THEN res = Err(UnexpectedEof) /\ idx = start
              ELSE res.ok /\ idx = start + C13_Fixed

C13_CursorInvariant ==
    /\ []C13_State
    /\ [][idx' >= idx /\ buf' = buf /\ start' = idx]_vars

\* a read of 8 bytes failed in the middle of the buffer, with bytes left
C13_Witness ==
    /\ op = "decode_fixed64"
    /\ res = Err(UnexpectedEof)
    /\ 0 < start
    /\ idx = start
    /\ idx < Len(buf)

====
